---- MODULE Spec2Model ----
(***************************************************************************)
(* Stock management library: the Inventory and Demand entities            *)
(* (models.py) and the EOQ, reorder point, safety stock and ABC            *)
(* algorithms (algorithms.py).                                             *)
(*                                                                         *)
(* Numbers.  The library computes on Python numbers that stand for reals.  *)
(* Inventory quantities are modelled as integers (multiples of one unit:   *)
(* the entity only adds, subtracts and compares them).  The algorithms     *)
(* divide, so their numbers are exact rationals <<n, d>> in lowest terms   *)
(* with d > 0.  Rounding of binary floating point, infinities and NaN are  *)
(* outside the model.                                                      *)
(***************************************************************************)
EXTENDS Integers, Sequences, FiniteSets

VARIABLES inv, demand, hist, input, call

vars == <<inv, demand, hist, input, call>>

(***************************************************************************)
(* Bounds of the model.                                                    *)
(***************************************************************************)
MaxQty == 3
MaxCalls == 3
MaxLevel == 2
MaxItems == 3
MaxNum == 2
MaxDen == 2
SqrtScale == 2

(***************************************************************************)
(* Exact rational arithmetic.                                              *)
(***************************************************************************)
Abs(n) == IF n < 0 THEN -n ELSE n

RECURSIVE GCD(_, _)
GCD(a, b) == IF b = 0 THEN a ELSE GCD(b, a % b)

Rat(n, d) ==
    LET s == IF d < 0 THEN -1 ELSE 1
        g == GCD(Abs(n), Abs(d))
    IN  <<(s * n) \div g, (s * d) \div g>>

FromInt(n) == <<n, 1>>
RAdd(a, b) == Rat(a[1] * b[2] + b[1] * a[2], a[2] * b[2])
RMul(a, b) == Rat(a[1] * b[1], a[2] * b[2])
RDiv(a, b) == Rat(a[1] * b[2], a[2] * b[1])
RLt(a, b) == a[1] * b[2] < b[1] * a[2]
RLe(a, b) == a[1] * b[2] <= b[1] * a[2]
RZero == FromInt(0)

(***************************************************************************)
(* Optional values: <<>> is None, <<v>> is the value v.                    *)
(***************************************************************************)
None == <<>>
Some(v) == <<v>>
IsNone(o) == Len(o) = 0

NoCall == [op |-> "none", args |-> <<>>, outcome |-> "none", value |-> <<>>]
Raise(op, args, err) == [op |-> op, args |-> args, outcome |-> err, value |-> <<>>]
Return(op, args, v) == [op |-> op, args |-> args, outcome |-> "ok", value |-> <<v>>]

(***************************************************************************)
(* Inventory (models.py).                                                  *)
(***************************************************************************)
ProductIds == {"P1", "P2", "P3"}
CostArgs == {-1, 0, 2}
StockArgs == -1 .. MaxLevel
MaxArgs == {None} \cup {Some(m) : m \in -1 .. MaxLevel + 1}
QtyArgs == -1 .. MaxQty

InventoryArgs ==
    [product_id : {"P1"}, current_stock : StockArgs,
     holding_cost_per_unit : CostArgs, unit_cost : CostArgs,
     min_stock_level : StockArgs, max_stock_level : MaxArgs]

\* __post_init__ without the check of max_stock_level against min_stock_level.
PostInitRaisesNoMaxCheck(a) ==
    \/ a.current_stock < 0
    \/ a.holding_cost_per_unit < 0
    \/ a.unit_cost < 0
    \/ a.min_stock_level < 0

\* Inventory.__post_init__: TRUE when one of the checks raises ValueError.
PostInitRaises(a) ==
    \/ a.current_stock < 0
    \/ a.holding_cost_per_unit < 0
    \/ a.unit_cost < 0
    \/ a.min_stock_level < 0
    \/ (~IsNone(a.max_stock_level) /\ a.max_stock_level[1] < a.min_stock_level)

NoHist == [initial |-> 0, added |-> 0, removed |-> 0, ncalls |-> 0]

\* Inventory(...): the dataclass constructor followed by __post_init__.
NewInventory ==
    /\ inv = <<>>
    /\ input = <<>>
    /\ \E a \in InventoryArgs :
          IF PostInitRaises(a)
          THEN /\ inv' = <<>>
               /\ hist' = NoHist
               /\ call' = Raise("Inventory", a, "ValueError")
          ELSE /\ inv' = <<a>>
               /\ hist' = [NoHist EXCEPT !.initial = a.current_stock]
               /\ call' = Return("Inventory", a, TRUE)
    /\ UNCHANGED <<demand, input>>

\* add_stock accepting a zero quantity.
AddStockRaisesNegativeOnly(self, quantity) == quantity < 0

AddStockRaises(self, quantity) == quantity <= 0

\* add_stock assigning the quantity instead of adding it.
add_stock_assign(self, quantity) ==
    [self EXCEPT !.current_stock = quantity]

add_stock(self, quantity) ==
    [self EXCEPT !.current_stock = self.current_stock + quantity]

AddStock ==
    /\ inv # <<>>
    /\ hist.ncalls < MaxCalls
    /\ \E q \in QtyArgs :
          IF AddStockRaises(inv[1], q)
          THEN /\ inv' = inv
               /\ hist' = [hist EXCEPT !.ncalls = @ + 1]
               /\ call' = Raise("add_stock", q, "ValueError")
          ELSE /\ inv' = <<add_stock(inv[1], q)>>
               /\ hist' = [hist EXCEPT !.ncalls = @ + 1, !.added = @ + q]
               /\ call' = Return("add_stock", q, TRUE)
    /\ UNCHANGED <<demand, input>>

\* remove_stock without the check against the available stock.
RemoveStockRaisesNoAvailability(self, quantity) == quantity <= 0

RemoveStockRaises(self, quantity) ==
    \/ quantity <= 0
    \/ quantity > self.current_stock

remove_stock(self, quantity) ==
    [self EXCEPT !.current_stock = self.current_stock - quantity]

RemoveStock ==
    /\ inv # <<>>
    /\ hist.ncalls < MaxCalls
    /\ \E q \in QtyArgs :
          IF RemoveStockRaises(inv[1], q)
          THEN /\ inv' = inv
               /\ hist' = [hist EXCEPT !.ncalls = @ + 1]
               /\ call' = Raise("remove_stock", q, "ValueError")
          ELSE /\ inv' = <<remove_stock(inv[1], q)>>
               /\ hist' = [hist EXCEPT !.ncalls = @ + 1, !.removed = @ + q]
               /\ call' = Return("remove_stock", q, TRUE)
    /\ UNCHANGED <<demand, input>>

\* is_below_minimum with <= in place of <.
is_below_minimum_inclusive(self) == self.current_stock <= self.min_stock_level

is_below_minimum(self) == self.current_stock < self.min_stock_level

is_above_maximum(self) ==
    IF IsNone(self.max_stock_level)
    THEN FALSE
    ELSE self.current_stock > self.max_stock_level[1]

IsBelowMinimum ==
    /\ inv # <<>>
    /\ call' = Return("is_below_minimum", <<>>, is_below_minimum(inv[1]))
    /\ UNCHANGED <<inv, demand, hist, input>>

IsAboveMaximum ==
    /\ inv # <<>>
    /\ call' = Return("is_above_maximum", <<>>, is_above_maximum(inv[1]))
    /\ UNCHANGED <<inv, demand, hist, input>>

InitInventory ==
    /\ inv = <<>>
    /\ demand = <<>>
    /\ hist = NoHist
    /\ input = <<>>
    /\ call = NoCall

NextInventory ==
    \/ NewInventory
    \/ AddStock
    \/ RemoveStock
    \/ IsBelowMinimum
    \/ IsAboveMaximum

SpecInventory == InitInventory /\ [][NextInventory]_vars


(***************************************************************************)
(* Properties of Inventory, checked under SpecInventory.                   *)
(***************************************************************************)
Constructed == inv # <<>>
Self == inv[1]
MutatorOps == {"add_stock", "remove_stock"}

\* C1: once an Inventory has been constructed, current_stock is >= 0 in every
\* state reached by add_stock and remove_stock calls, whatever their arguments
\* and whether they succeed or raise.
C1_StockNeverNegative ==
    Constructed => Self.current_stock >= 0

\* C1 witness: a successful remove_stock that took the whole stock.
C1_Witness ==
    /\ Constructed
    /\ call.op = "remove_stock"
    /\ call.outcome = "ok"
    /\ Self.current_stock = 0
    /\ hist.ncalls >= 2

\* C2: add_stock(q) and remove_stock(q) raise ValueError exactly when q <= 0 or,
\* for remove_stock, q exceeds the stock before the call; a call that raises
\* leaves every field of the Inventory as it was.
C2_RaiseExactlyWhenInvalidAndUnchanged ==
    [][/\ call'.op = "add_stock" =>
            /\ call'.outcome \in {"ok", "ValueError"}
            /\ (call'.outcome = "ValueError") <=> (call'.args <= 0)
       /\ call'.op = "remove_stock" =>
            /\ call'.outcome \in {"ok", "ValueError"}
            /\ (call'.outcome = "ValueError") <=>
                  (call'.args <= 0 \/ call'.args > inv[1].current_stock)
       /\ (call'.op \in MutatorOps /\ call'.outcome = "ValueError") => inv' = inv
      ]_vars

\* C2 witness: a remove_stock of a positive quantity beyond the stock has raised.
C2_Witness ==
    /\ Constructed
    /\ call.op = "remove_stock"
    /\ call.outcome = "ValueError"
    /\ call.args > 0
    /\ call.args > Self.current_stock

\* C3: add_stock(q) with q > 0 succeeds and raises current_stock by exactly q;
\* remove_stock(q) with 0 < q <= current_stock succeeds and lowers it by exactly
\* q; so current_stock is always the initial stock plus what was added minus
\* what was removed.
C3_ExactDeltas ==
    [][/\ (call'.op = "add_stock" /\ call'.args > 0) =>
            /\ call'.outcome = "ok"
            /\ inv'[1].current_stock = inv[1].current_stock + call'.args
       /\ (call'.op = "remove_stock" /\ call'.args > 0
              /\ call'.args <= inv[1].current_stock) =>
            /\ call'.outcome = "ok"
            /\ inv'[1].current_stock = inv[1].current_stock - call'.args
       /\ inv' # <<>> =>
            inv'[1].current_stock = hist'.initial + hist'.added - hist'.removed
      ]_vars

\* C3 witness: stock was added, then all of it removed, leaving 0.
C3_Witness ==
    /\ Constructed
    /\ call.op = "remove_stock"
    /\ call.outcome = "ok"
    /\ hist.added > 0
    /\ hist.removed = hist.initial + hist.added
    /\ Self.current_stock = 0

\* C4: is_below_minimum() is true exactly when current_stock < min_stock_level,
\* is_above_maximum() exactly when a max is set and current_stock exceeds it;
\* both are false at the boundary, and is_above_maximum() is false without max.
C4_ThresholdChecksStrict ==
    /\ Constructed =>
         /\ is_below_minimum(Self) <=> (Self.min_stock_level - Self.current_stock >= 1)
         /\ is_above_maximum(Self) <=>
               /\ Self.max_stock_level # None
               /\ Self.current_stock - Self.max_stock_level[1] >= 1
         /\ Self.current_stock = Self.min_stock_level => ~is_below_minimum(Self)
         /\ Self.max_stock_level = Some(Self.current_stock) => ~is_above_maximum(Self)
         /\ Self.max_stock_level = None => ~is_above_maximum(Self)
    /\ call.op = "is_below_minimum" =>
         call.value[1] = (Self.current_stock < Self.min_stock_level)
    /\ call.op = "is_above_maximum" =>
         call.value[1] = (/\ Self.max_stock_level # None
                          /\ Self.current_stock > Self.max_stock_level[1])

\* C4 witness: is_below_minimum() was asked with the stock exactly at a positive
\* minimum that is also the maximum.
C4_Witness ==
    /\ Constructed
    /\ call.op = "is_below_minimum"
    /\ call.value[1] = FALSE
    /\ Self.min_stock_level > 0
    /\ Self.current_stock = Self.min_stock_level
    /\ Self.max_stock_level = Some(Self.current_stock)
    /\ hist.ncalls > 0

\* C5: a construction with a negative current_stock, holding_cost_per_unit,
\* unit_cost or min_stock_level, or with a max below the min, raises and yields
\* no instance; every instance has those fields >= 0 and max >= min when set.
C5_ConstructionValidated ==
    /\ call.op = "Inventory" =>
         LET a == call.args
             invalid == \/ a.current_stock < 0
                        \/ a.holding_cost_per_unit < 0
                        \/ a.unit_cost < 0
                        \/ a.min_stock_level < 0
                        \/ /\ a.max_stock_level # None
                           /\ a.max_stock_level[1] < a.min_stock_level
         IN  IF invalid
             THEN call.outcome = "ValueError" /\ ~Constructed
             ELSE call.outcome = "ok" /\ inv = <<a>>
    /\ Constructed =>
         /\ Self.current_stock >= 0
         /\ Self.holding_cost_per_unit >= 0
         /\ Self.unit_cost >= 0
         /\ Self.min_stock_level >= 0
         /\ Self.max_stock_level # None =>
               Self.max_stock_level[1] >= Self.min_stock_level

\* C5 witness: an instance with max equal to a positive min, after stock moved.
C5_Witness ==
    /\ Constructed
    /\ Self.min_stock_level > 0
    /\ Self.max_stock_level = Some(Self.min_stock_level)
    /\ hist.added > 0
    /\ hist.removed > 0

\* C17: in every state of a constructed Inventory, whatever add_stock and
\* remove_stock calls were made, is_below_minimum() and is_above_maximum() are
\* not both true.
C17_NotBelowAndAbove ==
    /\ Constructed => ~(is_below_minimum(Self) /\ is_above_maximum(Self))
    /\ (call.op = "is_above_maximum" /\ call.value[1]) =>
          Self.current_stock >= Self.min_stock_level
    /\ (call.op = "is_below_minimum" /\ call.value[1]) =>
          (Self.max_stock_level # None => Self.current_stock <= Self.max_stock_level[1])

\* C17 witness: after stock was added, is_above_maximum() answered true for an
\* instance whose max equals a positive min.
C17_Witness ==
    /\ Constructed
    /\ call.op = "is_above_maximum"
    /\ call.value[1] = TRUE
    /\ hist.added > 0
    /\ Self.min_stock_level > 0
    /\ Self.max_stock_level = Some(Self.min_stock_level)


(***************************************************************************)
(* ABCAnalysisAlgorithm (algorithms.py).  An item is <<product_id,         *)
(* unit_cost, annual_demand>>; the returned dict is a function from the    *)
(* product ids it holds to "A", "B" or "C".                                *)
(***************************************************************************)
UnitCosts == {1, 4}
AnnualDemands == {-1, 0, 1, 3, 4}
Items == ProductIds \X UnitCosts \X AnnualDemands

\* The inputs of the model: the lists of at most MaxItems items.
IsItems(items) ==
    /\ Len(items) <= MaxItems
    /\ \A i \in 1 .. Len(items) : items[i] \in Items

\* item_values: the (product_id, total_value) pairs, in input order.
ItemValues(items) ==
    [i \in 1 .. Len(items) |-> <<items[i][1], items[i][2] * items[i][3]>>]

\* list.sort(key=value, reverse=True) is stable: an element goes after every
\* element whose value is greater than or equal to its own.
InsertDesc(sorted, x) ==
    LET k == Cardinality({i \in 1 .. Len(sorted) : sorted[i][2] >= x[2]})
    IN  SubSeq(sorted, 1, k) \o <<x>> \o SubSeq(sorted, k + 1, Len(sorted))

RECURSIVE SortDesc(_)
SortDesc(s) ==
    IF s = <<>>
    THEN <<>>
    ELSE InsertDesc(SortDesc(SubSeq(s, 1, Len(s) - 1)), s[Len(s)])

RECURSIVE SumValues(_)
SumValues(s) ==
    IF s = <<>> THEN 0 ELSE s[1][2] + SumValues(Tail(s))

\* classification[product_id] = tier
Put(classification, product_id, tier) ==
    [p \in DOMAIN classification \cup {product_id} |->
        IF p = product_id THEN tier ELSE classification[p]]

\* (cumulative_value / total_value) * 100
CumulativePercent(cumulative_value, total_value) ==
    RMul(RDiv(FromInt(cumulative_value), FromInt(total_value)), FromInt(100))

Tier(current_cumulative_percent) ==
    IF RLt(current_cumulative_percent, FromInt(80))
    THEN "A"
    ELSE IF RLt(current_cumulative_percent, FromInt(95))
         THEN "B"
         ELSE "C"

\* The loop body testing the percentage after adding the current item's value.
StepAfterAdd(acc, item, total_value) ==
    [classification |->
        Put(acc.classification, item[1],
            Tier(CumulativePercent(acc.cumulative_value + item[2], total_value))),
     cumulative_value |-> acc.cumulative_value + item[2]]

\* One pass of the classification loop over the pair item = <<product_id, value>>.
Step(acc, item, total_value) ==
    [classification |->
        Put(acc.classification, item[1],
            Tier(CumulativePercent(acc.cumulative_value, total_value))),
     cumulative_value |-> acc.cumulative_value + item[2]]

RECURSIVE Loop(_, _, _)
Loop(acc, rest, total_value) ==
    IF rest = <<>>
    THEN acc
    ELSE Loop(Step(acc, Head(rest), total_value), Tail(rest), total_value)

\* ABCAnalysisAlgorithm.calculate: the outcome ("ok" or the exception) and the dict.
abc_calculate(items) ==
    IF items = <<>>
    THEN [outcome |-> "ok", value |-> <<>>]
    ELSE LET item_values == SortDesc(ItemValues(items))
             total_value == SumValues(item_values)
         IN  IF total_value = 0
             THEN [outcome |-> "ZeroDivisionError", value |-> <<>>]
             ELSE [outcome |-> "ok",
                   value |-> Loop([classification |-> <<>>, cumulative_value |-> 0],
                                  item_values, total_value).classification]

ABCCalculate ==
    /\ IsItems(input)
    /\ LET r == abc_calculate(input)
       IN  call' = [op |-> "abc_calculate", args |-> input,
                    outcome |-> r.outcome, value |-> r.value]
    /\ UNCHANGED <<inv, demand, hist, input>>

InitABC ==
    /\ inv = <<>>
    /\ demand = <<>>
    /\ hist = NoHist
    /\ \E n \in 0 .. MaxItems : input \in [1 .. n -> Items]
    /\ call = NoCall

NextABC == ABCCalculate

SpecABC == InitABC /\ [][NextABC]_vars


(***************************************************************************)
(* Properties of ABCAnalysisAlgorithm.calculate, checked under SpecABC.    *)
(* The expected tier of an item is stated from the input alone, without    *)
(* the sort and the loop of the code.                                      *)
(***************************************************************************)
ABCCalled == call.op = "abc_calculate"
ValueAt(items, i) == items[i][2] * items[i][3]

\* The items that come before item i in descending value order, ties in input order.
Before(items, i) ==
    {j \in 1 .. Len(items) :
        \/ ValueAt(items, j) > ValueAt(items, i)
        \/ (ValueAt(items, j) = ValueAt(items, i) /\ j < i)}

RECURSIVE SumAt(_, _)
SumAt(items, S) ==
    IF S = {}
    THEN 0
    ELSE LET j == CHOOSE k \in S : TRUE
         IN  ValueAt(items, j) + SumAt(items, S \ {j})

TotalOf(items) == SumAt(items, 1 .. Len(items))

\* share < pct percent, where share = before / total and total # 0.
ShareBelow(before, total, pct) ==
    IF total > 0 THEN 100 * before < pct * total ELSE 100 * before > pct * total

ExpectedTier(items, i) ==
    LET before == SumAt(items, Before(items, i))
        total == TotalOf(items)
    IN  IF ShareBelow(before, total, 80)
        THEN "A"
        ELSE IF ShareBelow(before, total, 95) THEN "B" ELSE "C"

\* A later item of the order carries the same product id and overwrites the entry.
Overwritten(items, i) ==
    \E j \in 1 .. Len(items) :
        j # i /\ items[j][1] = items[i][1] /\ i \in Before(items, j)

\* C6: calculate orders the items by value = unit_cost * annual_demand descending,
\* ties in input order, and gives each item the tier of the share of the total
\* value held by the items before it in that order (the item itself excluded):
\* below 80% A, else below 95% B, else C.
C6_TierFromShareBefore ==
    (ABCCalled /\ call.outcome = "ok") =>
        \A i \in 1 .. Len(call.args) :
            ~Overwritten(call.args, i) =>
                call.value[call.args[i][1]] = ExpectedTier(call.args, i)

\* C6 witness: three items of values 1, 16, 3 given out of order: the shares
\* before them are 95%, 0% and 80%, exactly on the two thresholds.
C6_Witness ==
    /\ ABCCalled
    /\ call.outcome = "ok"
    /\ call.args = <<<<"P1", 1, 1>>, <<"P2", 4, 4>>, <<"P3", 1, 3>>>>
    /\ call.value["P2"] = "A"
    /\ call.value["P3"] = "B"
    /\ call.value["P1"] = "C"

\* C7: for every input of exactly one item, calculate returns a mapping that
\* classifies the item as "A".
C7_SingleItemIsA ==
    (ABCCalled /\ Len(call.args) = 1) =>
        /\ call.outcome = "ok"
        /\ call.value[call.args[1][1]] = "A"

\* C8: for every input, calculate returns without error a mapping whose values
\* are all A, B or C and that has as many entries as the input has items.
C8_TotalMappingOfInputSize ==
    ABCCalled =>
        /\ call.outcome = "ok"
        /\ \A p \in DOMAIN call.value : call.value[p] \in {"A", "B", "C"}
        /\ Cardinality(DOMAIN call.value) = Len(call.args)


\* The tiers from best to worst.
TierRank(tier) == CASE tier = "A" -> 1 [] tier = "B" -> 2 [] tier = "C" -> 3

DistinctIds(items) ==
    \A i, j \in 1 .. Len(items) : items[i][1] = items[j][1] => i = j

\* C16: for distinct product ids, values >= 0 and a positive total, calculate
\* returns tiers that are monotone in value: the item first in descending value
\* order (the highest value, the earliest of the input among equals) is A, no
\* item has a better tier than an item of strictly greater value, and along the
\* order the tiers are a run of A, then of B, then of C.
C16_TiersMonotoneInValue ==
    LET items == call.args
        n == Len(items)
    IN  (/\ ABCCalled
         /\ DistinctIds(items)
         /\ \A i \in 1 .. n : ValueAt(items, i) >= 0
         /\ TotalOf(items) > 0) =>
            /\ call.outcome = "ok"
            /\ DOMAIN call.value = {items[i][1] : i \in 1 .. n}
            /\ \A i \in 1 .. n :
                  Before(items, i) = {} => call.value[items[i][1]] = "A"
            /\ \A i, j \in 1 .. n :
                  ValueAt(items, i) > ValueAt(items, j) =>
                     TierRank(call.value[items[i][1]]) <= TierRank(call.value[items[j][1]])
            /\ \A i, j \in 1 .. n :
                  i \in Before(items, j) =>
                     TierRank(call.value[items[i][1]]) <= TierRank(call.value[items[j][1]])

\* C16 witness: three items of distinct ids and values 3, 1, 16, given out of
\* order, classified B, C and A.
C16_Witness ==
    /\ ABCCalled
    /\ call.outcome = "ok"
    /\ call.args = <<<<"P1", 1, 3>>, <<"P2", 1, 1>>, <<"P3", 4, 4>>>>
    /\ call.value = [p \in ProductIds |->
                        CASE p = "P1" -> "B" [] p = "P2" -> "C" [] p = "P3" -> "A"]

(***************************************************************************)
(* math.sqrt on a rational r >= 0: the exact root when r has a rational    *)
(* one, and otherwise the root rounded down to a multiple of 1/SqrtScale   *)
(* (the model's precision).                                                *)
(***************************************************************************)
ISqrt(n) == CHOOSE k \in 0 .. n : k * k <= n /\ (k + 1) * (k + 1) > n
IsSquare(n) == ISqrt(n) * ISqrt(n) = n

Sqrt(r) ==
    IF IsSquare(r[1]) /\ IsSquare(r[2])
    THEN <<ISqrt(r[1]), ISqrt(r[2])>>
    ELSE Rat(ISqrt((r[1] * SqrtScale * SqrtScale) \div r[2]), SqrtScale)

(***************************************************************************)
(* EOQAlgorithm (algorithms.py).                                           *)
(***************************************************************************)
RatArgs == {Rat(n, d) : n \in -MaxNum .. MaxNum, d \in 1 .. MaxDen}

EOQInputs ==
    [annual_demand : RatArgs, ordering_cost : RatArgs,
     holding_cost : RatArgs, order_quantity : RatArgs]

\* calculate rejecting a zero ordering cost as well.
eoq_calculate_positive_ordering(annual_demand, ordering_cost, holding_cost) ==
    IF RLe(annual_demand, RZero)
    THEN [outcome |-> "ValueError", value |-> <<>>]
    ELSE IF RLe(ordering_cost, RZero)
    THEN [outcome |-> "ValueError", value |-> <<>>]
    ELSE IF RLe(holding_cost, RZero)
    THEN [outcome |-> "ValueError", value |-> <<>>]
    ELSE [outcome |-> "ok",
          value |-> <<Sqrt(RDiv(RMul(RMul(FromInt(2), annual_demand), ordering_cost),
                                holding_cost))>>]

\* EOQAlgorithm.calculate
eoq_calculate(annual_demand, ordering_cost, holding_cost) ==
    IF RLe(annual_demand, RZero)
    THEN [outcome |-> "ValueError", value |-> <<>>]
    ELSE IF RLt(ordering_cost, RZero)
    THEN [outcome |-> "ValueError", value |-> <<>>]
    ELSE IF RLe(holding_cost, RZero)
    THEN [outcome |-> "ValueError", value |-> <<>>]
    ELSE [outcome |-> "ok",
          value |-> <<Sqrt(RDiv(RMul(RMul(FromInt(2), annual_demand), ordering_cost),
                                holding_cost))>>]

\* calculate_total_cost holding the whole order quantity, not half of it.
eoq_calculate_total_cost_full_holding(annual_demand, ordering_cost, holding_cost, order_quantity) ==
    IF RLe(order_quantity, RZero)
    THEN [outcome |-> "ValueError", value |-> <<>>]
    ELSE LET number_of_orders == RDiv(annual_demand, order_quantity)
             total_ordering_cost == RMul(number_of_orders, ordering_cost)
             total_holding_cost == RMul(order_quantity, holding_cost)
             total_cost == RAdd(total_ordering_cost, total_holding_cost)
         IN  [outcome |-> "ok",
              value |-> <<<<total_cost, total_ordering_cost, total_holding_cost>>>>]

\* EOQAlgorithm.calculate_total_cost
eoq_calculate_total_cost(annual_demand, ordering_cost, holding_cost, order_quantity) ==
    IF RLe(order_quantity, RZero)
    THEN [outcome |-> "ValueError", value |-> <<>>]
    ELSE LET number_of_orders == RDiv(annual_demand, order_quantity)
             total_ordering_cost == RMul(number_of_orders, ordering_cost)
             total_holding_cost == RMul(RDiv(order_quantity, FromInt(2)), holding_cost)
             total_cost == RAdd(total_ordering_cost, total_holding_cost)
         IN  [outcome |-> "ok",
              value |-> <<<<total_cost, total_ordering_cost, total_holding_cost>>>>]

\* calculate_reorder_frequency raising for an eoq that is not positive.
eoq_calculate_reorder_frequency_strict(annual_demand, eoq) ==
    IF RLt(RZero, eoq)
    THEN [outcome |-> "ok", value |-> <<RDiv(annual_demand, eoq)>>]
    ELSE [outcome |-> "ValueError", value |-> <<>>]

\* EOQAlgorithm.calculate_reorder_frequency
eoq_calculate_reorder_frequency(annual_demand, eoq) ==
    IF RLt(RZero, eoq)
    THEN [outcome |-> "ok", value |-> <<RDiv(annual_demand, eoq)>>]
    ELSE [outcome |-> "ok", value |-> <<FromInt(0)>>]

EOQCalculate ==
    /\ input \in EOQInputs
    /\ LET r == eoq_calculate(input.annual_demand, input.ordering_cost, input.holding_cost)
       IN  call' = [op |-> "eoq_calculate", args |-> input,
                    outcome |-> r.outcome, value |-> r.value]
    /\ UNCHANGED <<inv, demand, hist, input>>

EOQCalculateTotalCost ==
    /\ input \in EOQInputs
    /\ LET r == eoq_calculate_total_cost(input.annual_demand, input.ordering_cost,
                                         input.holding_cost, input.order_quantity)
       IN  call' = [op |-> "eoq_calculate_total_cost", args |-> input,
                    outcome |-> r.outcome, value |-> r.value]
    /\ UNCHANGED <<inv, demand, hist, input>>

\* The eoq argument is drawn as the input's order_quantity.
EOQCalculateReorderFrequency ==
    /\ input \in EOQInputs
    /\ LET r == eoq_calculate_reorder_frequency(input.annual_demand, input.order_quantity)
       IN  call' = [op |-> "eoq_calculate_reorder_frequency", args |-> input,
                    outcome |-> r.outcome, value |-> r.value]
    /\ UNCHANGED <<inv, demand, hist, input>>

InitEOQ ==
    /\ inv = <<>>
    /\ demand = <<>>
    /\ hist = NoHist
    /\ input \in EOQInputs
    /\ call = NoCall

NextEOQ ==
    \/ EOQCalculate
    \/ EOQCalculateTotalCost
    \/ EOQCalculateReorderFrequency

SpecEOQ == InitEOQ /\ [][NextEOQ]_vars

(***************************************************************************)
(* Properties of EOQAlgorithm, checked under SpecEOQ.  A rational <<n, d>> *)
(* has d > 0, so its sign is the sign of n, and equations between          *)
(* rationals are stated cross-multiplied, over the integers.               *)
(***************************************************************************)
Positive(r) == r[1] > 0
Negative(r) == r[1] < 0

\* 2*D*S/H in lowest terms has a rational square root.
HasRationalRoot(D, S, H) ==
    LET x == Rat(2 * D[1] * S[1] * H[2], D[2] * S[2] * H[1])
    IN  (\E k \in 0 .. x[1] : k * k = x[1]) /\ (\E k \in 1 .. x[2] : k * k = x[2])

\* C9: calculate(D, S, H) raises ValueError exactly when D <= 0 or S < 0 or
\* H <= 0; otherwise it returns the q >= 0 with q*q*H = 2*D*S, which is that root
\* itself when it is rational and else the root to the precision 1/SqrtScale:
\* q*q*H < 2*D*S < (q + 1/SqrtScale)^2 * H.
C9_EOQValidatedSquareRoot ==
    call.op = "eoq_calculate" =>
        LET D == call.args.annual_demand
            S == call.args.ordering_cost
            H == call.args.holding_cost
        IN  /\ call.outcome \in {"ok", "ValueError"}
            /\ (call.outcome = "ValueError") <=>
                  (~Positive(D) \/ Negative(S) \/ ~Positive(H))
            /\ call.outcome = "ok" =>
                  LET q == call.value[1]
                      up == <<q[1] * SqrtScale + q[2], q[2] * SqrtScale>>
                      lhs(r) == r[1] * r[1] * H[1] * D[2] * S[2]
                      rhs(r) == 2 * D[1] * S[1] * r[2] * r[2] * H[2]
                  IN  /\ q[1] >= 0 /\ q[2] > 0
                      /\ IF HasRationalRoot(D, S, H)
                         THEN lhs(q) = rhs(q)
                         ELSE lhs(q) < rhs(q) /\ rhs(up) < lhs(up)

\* C9 witness: calculate returned a positive root for a non-integer demand.
C9_Witness ==
    /\ call.op = "eoq_calculate"
    /\ call.outcome = "ok"
    /\ call.args.annual_demand[2] > 1
    /\ call.args.ordering_cost[1] > 0
    /\ call.value[1][1] > 0

\* C10: calculate_total_cost(D, S, H, Q) raises exactly when Q <= 0; otherwise it
\* returns (total, ordering_total, holding_total) with ordering_total = (D/Q)*S,
\* holding_total = (Q/2)*H and total = ordering_total + holding_total.
C10_TotalCostConsistent ==
    call.op = "eoq_calculate_total_cost" =>
        LET D == call.args.annual_demand
            S == call.args.ordering_cost
            H == call.args.holding_cost
            Q == call.args.order_quantity
        IN  /\ call.outcome \in {"ok", "ValueError"}
            /\ (call.outcome = "ValueError") <=> ~Positive(Q)
            /\ call.outcome = "ok" =>
                  LET total == call.value[1][1]
                      ordering == call.value[1][2]
                      holding == call.value[1][3]
                  IN  /\ total[2] > 0 /\ ordering[2] > 0 /\ holding[2] > 0
                      /\ ordering[1] * Q[1] * D[2] * S[2]
                            = D[1] * S[1] * ordering[2] * Q[2]
                      /\ holding[1] * 2 * Q[2] * H[2] = Q[1] * H[1] * holding[2]
                      /\ total[1] * ordering[2] * holding[2]
                            = (ordering[1] * holding[2] + holding[1] * ordering[2])
                                 * total[2]

\* C10 witness: a total cost for a fractional order quantity with both parts positive.
C10_Witness ==
    /\ call.op = "eoq_calculate_total_cost"
    /\ call.outcome = "ok"
    /\ call.args.order_quantity[2] > 1
    /\ call.value[1][2][1] > 0
    /\ call.value[1][3][1] > 0

\* The arguments that the contract of each EOQAlgorithm operation excludes.
EOQInvalidArgs(op, a) ==
    CASE op = "eoq_calculate" ->
            \/ ~Positive(a.annual_demand)
            \/ Negative(a.ordering_cost)
            \/ ~Positive(a.holding_cost)
      [] op = "eoq_calculate_total_cost" -> ~Positive(a.order_quantity)
      [] op = "eoq_calculate_reorder_frequency" -> ~Positive(a.order_quantity)
      [] OTHER -> FALSE

ROPInputs ==
    [demand : RatArgs, lead_time_days : RatArgs,
     safety_stock : RatArgs, working_days : RatArgs]

\* ReorderPointAlgorithm.calculate
rop_calculate(daily_demand, lead_time_days, safety_stock) ==
    IF RLt(daily_demand, RZero)
    THEN [outcome |-> "ValueError", value |-> <<>>]
    ELSE IF RLt(lead_time_days, RZero)
    THEN [outcome |-> "ValueError", value |-> <<>>]
    ELSE IF RLt(safety_stock, RZero)
    THEN [outcome |-> "ValueError", value |-> <<>>]
    ELSE [outcome |-> "ok",
          value |-> <<RAdd(RMul(daily_demand, lead_time_days), safety_stock)>>]

\* calculate_from_annual passing the annual demand on without dividing it.
rop_calculate_from_annual_undivided(annual_demand, lead_time_days, safety_stock, working_days) ==
    IF RLe(working_days, RZero)
    THEN [outcome |-> "ValueError", value |-> <<>>]
    ELSE rop_calculate(annual_demand, lead_time_days, safety_stock)

\* ReorderPointAlgorithm.calculate_from_annual
rop_calculate_from_annual(annual_demand, lead_time_days, safety_stock, working_days) ==
    IF RLe(working_days, RZero)
    THEN [outcome |-> "ValueError", value |-> <<>>]
    ELSE LET daily_demand == RDiv(annual_demand, working_days)
         IN  rop_calculate(daily_demand, lead_time_days, safety_stock)

ROPCalculate ==
    /\ input \in ROPInputs
    /\ LET r == rop_calculate(input.demand, input.lead_time_days, input.safety_stock)
       IN  call' = [op |-> "rop_calculate", args |-> input,
                    outcome |-> r.outcome, value |-> r.value]
    /\ UNCHANGED <<inv, demand, hist, input>>

ROPCalculateFromAnnual ==
    /\ input \in ROPInputs
    /\ LET r == rop_calculate_from_annual(input.demand, input.lead_time_days,
                                          input.safety_stock, input.working_days)
       IN  call' = [op |-> "rop_calculate_from_annual", args |-> input,
                    outcome |-> r.outcome, value |-> r.value]
    /\ UNCHANGED <<inv, demand, hist, input>>

InitROP ==
    /\ inv = <<>>
    /\ demand = <<>>
    /\ hist = NoHist
    /\ input \in ROPInputs
    /\ call = NoCall

NextROP ==
    \/ ROPCalculate
    \/ ROPCalculateFromAnnual

SpecROP == InitROP /\ [][NextROP]_vars

(***************************************************************************)
(* Properties of ReorderPointAlgorithm, checked under SpecROP.             *)
(***************************************************************************)
\* C12: calculate_from_annual(A, L, ss, W) raises if W <= 0; for W > 0 its outcome
\* is that of calculate(A/W, L, ss): the value (A/W)*L + ss when A/W, L and ss
\* are all >= 0, and the same ValueError when one of them is negative.
C12_FromAnnualDelegates ==
    call.op = "rop_calculate_from_annual" =>
        LET A == call.args.demand
            L == call.args.lead_time_days
            ss == call.args.safety_stock
            W == call.args.working_days
        IN  /\ call.outcome \in {"ok", "ValueError"}
            /\ ~Positive(W) => call.outcome = "ValueError"
            /\ Positive(W) =>
                  LET daily == <<A[1] * W[2], A[2] * W[1]>>
                      direct == rop_calculate(daily, L, ss)
                  IN  /\ call.outcome = direct.outcome
                      /\ (call.outcome = "ValueError") <=>
                            (Negative(A) \/ Negative(L) \/ Negative(ss))
                      /\ call.outcome = "ok" =>
                            LET v == call.value[1]
                            IN  /\ v[2] > 0
                                /\ v[1] * A[2] * W[1] * L[2] * ss[2]
                                      = (A[1] * W[2] * L[1] * ss[2]
                                           + ss[1] * A[2] * W[1] * L[2]) * v[2]
                                /\ v[1] * direct.value[1][2] = direct.value[1][1] * v[2]

\* C12 witness: a reorder point from an annual demand over a fractional number
\* of working days, with a positive lead time demand and safety stock.
C12_Witness ==
    /\ call.op = "rop_calculate_from_annual"
    /\ call.outcome = "ok"
    /\ call.args.working_days[2] > 1
    /\ call.args.demand[1] > 0
    /\ call.args.lead_time_days[1] > 0
    /\ call.args.safety_stock[1] > 0
    /\ call.args.demand # call.args.working_days

(***************************************************************************)
(* SafetyStockAlgorithm (algorithms.py).                                   *)
(***************************************************************************)
SafetyStockInputs ==
    [service_level_z : RatArgs, demand_std_dev : RatArgs, lead_time_days : RatArgs]

\* calculate adding the variability term to z instead of multiplying by it.
ss_calculate_additive(service_level_z, demand_std_dev, lead_time_days) ==
    IF RLt(service_level_z, RZero)
    THEN [outcome |-> "ValueError", value |-> <<>>]
    ELSE IF RLt(demand_std_dev, RZero)
    THEN [outcome |-> "ValueError", value |-> <<>>]
    ELSE IF RLt(lead_time_days, RZero)
    THEN [outcome |-> "ValueError", value |-> <<>>]
    ELSE [outcome |-> "ok",
          value |-> <<RAdd(service_level_z, RMul(demand_std_dev, Sqrt(lead_time_days)))>>]

\* SafetyStockAlgorithm.calculate
ss_calculate(service_level_z, demand_std_dev, lead_time_days) ==
    IF RLt(service_level_z, RZero)
    THEN [outcome |-> "ValueError", value |-> <<>>]
    ELSE IF RLt(demand_std_dev, RZero)
    THEN [outcome |-> "ValueError", value |-> <<>>]
    ELSE IF RLt(lead_time_days, RZero)
    THEN [outcome |-> "ValueError", value |-> <<>>]
    ELSE [outcome |-> "ok",
          value |-> <<RMul(RMul(service_level_z, demand_std_dev), Sqrt(lead_time_days))>>]

SSCalculate ==
    /\ input \in SafetyStockInputs
    /\ LET r == ss_calculate(input.service_level_z, input.demand_std_dev,
                             input.lead_time_days)
       IN  call' = [op |-> "ss_calculate", args |-> input,
                    outcome |-> r.outcome, value |-> r.value]
    /\ UNCHANGED <<inv, demand, hist, input>>

InitSafetyStock ==
    /\ inv = <<>>
    /\ demand = <<>>
    /\ hist = NoHist
    /\ input \in SafetyStockInputs
    /\ call = NoCall

NextSafetyStock == SSCalculate

SpecSafetyStock == InitSafetyStock /\ [][NextSafetyStock]_vars

\* service_levels: the table, in the insertion order of the dict; the keys are
\* percentages and the values Z-scores, as rationals.
service_levels ==
    << <<Rat(50, 1), Rat(0, 100)>>,
       <<Rat(75, 1), Rat(67, 100)>>,
       <<Rat(80, 1), Rat(84, 100)>>,
       <<Rat(85, 1), Rat(104, 100)>>,
       <<Rat(90, 1), Rat(128, 100)>>,
       <<Rat(95, 1), Rat(165, 100)>>,
       <<Rat(97, 1), Rat(188, 100)>>,
       <<Rat(98, 1), Rat(205, 100)>>,
       <<Rat(99, 1), Rat(233, 100)>>,
       <<Rat(995, 10), Rat(258, 100)>>,
       <<Rat(999, 10), Rat(309, 100)>> >>

\* abs(x - service_level_percent), as a rational
Distance(x, service_level_percent) ==
    LET diff == RAdd(x, <<-service_level_percent[1], service_level_percent[2]>>)
    IN  <<Abs(diff[1]), diff[2]>>

\* The key x - service_level_percent, without the absolute value.
SignedDistance(x, service_level_percent) ==
    RAdd(x, <<-service_level_percent[1], service_level_percent[2]>>)

\* The key function of min(): lambda x: abs(x - service_level_percent)
MinKey(x, service_level_percent) == Distance(x, service_level_percent)

\* min(keys, key=...): the first key, in table order, of the least key value.
RECURSIVE MinFrom(_, _, _)
MinFrom(i, best, service_level_percent) ==
    IF i > Len(service_levels)
    THEN best
    ELSE IF RLt(MinKey(service_levels[i][1], service_level_percent),
                MinKey(service_levels[best][1], service_level_percent))
         THEN MinFrom(i + 1, i, service_level_percent)
         ELSE MinFrom(i + 1, best, service_level_percent)

\* SafetyStockAlgorithm.get_z_score_for_service_level
get_z_score_for_service_level(service_level_percent) ==
    IF \E i \in 1 .. Len(service_levels) : service_levels[i][1] = service_level_percent
    THEN LET i == CHOOSE k \in 1 .. Len(service_levels) :
                      service_levels[k][1] = service_level_percent
         IN  service_levels[i][2]
    ELSE LET closest == MinFrom(2, 1, service_level_percent)
         IN  service_levels[closest][2]

\* The percentages of the model: the multiples of 1/PercentScale from -1 to
\* MaxPercent.
PercentScale == 20
MaxPercent == 101
PercentArgs == {Rat(n, PercentScale) : n \in -PercentScale .. MaxPercent * PercentScale}

GetZScore ==
    /\ input \in PercentArgs
    /\ call' = Return("get_z_score_for_service_level", input,
                      get_z_score_for_service_level(input))
    /\ UNCHANGED <<inv, demand, hist, input>>

InitZScore ==
    /\ inv = <<>>
    /\ demand = <<>>
    /\ hist = NoHist
    /\ input \in PercentArgs
    /\ call = NoCall

NextZScore == GetZScore

SpecZScore == InitZScore /\ [][NextZScore]_vars

(***************************************************************************)
(* Properties of SafetyStockAlgorithm.                                     *)
(***************************************************************************)
TableIndex == 1 .. Len(service_levels)

\* |key i - p| <= |key j - p|, cross-multiplied (the denominator of p cancels).
NoFarther(i, j, p) ==
    LET ki == service_levels[i][1]
        kj == service_levels[j][1]
    IN  Abs(ki[1] * p[2] - p[1] * ki[2]) * kj[2]
           <= Abs(kj[1] * p[2] - p[1] * kj[2]) * ki[2]

\* C13: get_z_score_for_service_level(p) returns the table value of p when p is
\* a key of the table, and otherwise the value of a key whose absolute distance
\* to p is least among all keys (1.65 or 1.88 for p = 96).  Checked under
\* SpecZScore.
C13_ZScoreExactOrNearest ==
    call.op = "get_z_score_for_service_level" =>
        LET p == call.args
            z == call.value[1]
        IN  /\ call.outcome = "ok"
            /\ \A i \in TableIndex :
                  service_levels[i][1] = p => z = service_levels[i][2]
            /\ \E i \in TableIndex :
                  /\ z = service_levels[i][2]
                  /\ \A j \in TableIndex : NoFarther(i, j, p)
            /\ p = <<96, 1>> => z \in {<<33, 20>>, <<47, 25>>}

\* C13 witness: the Z-score asked for 96, which is no key and lies midway between
\* the keys 95 and 97.
C13_Witness ==
    /\ call.op = "get_z_score_for_service_level"
    /\ call.args = <<96, 1>>
    /\ call.value[1] = <<33, 20>>

\* C15: calculate(z, sigma, L) raises ValueError when z, sigma or L is negative,
\* and only then; for z >= 0 and L >= 0 with sigma = 0 it returns exactly 0.
\* Checked under SpecSafetyStock.
C15_SafetyStockValidatedZeroDeviation ==
    call.op = "ss_calculate" =>
        LET z == call.args.service_level_z
            sigma == call.args.demand_std_dev
            L == call.args.lead_time_days
        IN  /\ call.outcome \in {"ok", "ValueError"}
            /\ (call.outcome = "ValueError") <=>
                  (Negative(z) \/ Negative(sigma) \/ Negative(L))
            /\ call.outcome = "ValueError" => call.value = <<>>
            /\ (~Negative(z) /\ ~Negative(L) /\ sigma[1] = 0) =>
                  (call.outcome = "ok" /\ call.value[1] = <<0, 1>>)

\* C15 witness: a safety stock of 0 for a zero deviation with a positive z and a
\* positive lead time that has no rational square root.
C15_Witness ==
    /\ call.op = "ss_calculate"
    /\ call.outcome = "ok"
    /\ call.args.demand_std_dev[1] = 0
    /\ call.args.service_level_z[1] > 0
    /\ call.args.lead_time_days = <<2, 1>>
    /\ call.value[1] = <<0, 1>>

(***************************************************************************)
(* Demand (models.py): a dataclass that is not declared frozen, so its     *)
(* generated class accepts assignments to its fields.                      *)
(***************************************************************************)
MaxTime == 2
Timestamps == 0 .. MaxTime

DemandArgs ==
    [product_id : ProductIds, quantity : QtyArgs, timestamp : Timestamps]

\* Demand.__post_init__: TRUE when it raises ValueError.
DemandPostInitRaises(a) == a.quantity < 0

\* Demand(...): the dataclass constructor followed by __post_init__; the
\* timestamp is the argument or the clock's reading.
NewDemand ==
    /\ demand = <<>>
    /\ \E a \in DemandArgs :
          IF DemandPostInitRaises(a)
          THEN /\ demand' = <<>>
               /\ call' = Raise("Demand", a, "ValueError")
          ELSE /\ demand' = <<a>>
               /\ call' = Return("Demand", a, TRUE)
    /\ UNCHANGED <<inv, hist, input>>

\* instance.field = value: the assignment the class accepts; __post_init__ does
\* not run again.
SetDemandField ==
    /\ demand # <<>>
    /\ \/ \E v \in ProductIds :
            /\ demand' = <<[demand[1] EXCEPT !.product_id = v]>>
            /\ call' = Return("Demand.__setattr__", <<"product_id", v>>, TRUE)
       \/ \E v \in QtyArgs :
            /\ demand' = <<[demand[1] EXCEPT !.quantity = v]>>
            /\ call' = Return("Demand.__setattr__", <<"quantity", v>>, TRUE)
       \/ \E v \in Timestamps :
            /\ demand' = <<[demand[1] EXCEPT !.timestamp = v]>>
            /\ call' = Return("Demand.__setattr__", <<"timestamp", v>>, TRUE)
    /\ UNCHANGED <<inv, hist, input>>

InitDemand ==
    /\ inv = <<>>
    /\ demand = <<>>
    /\ hist = NoHist
    /\ input = <<>>
    /\ call = NoCall

NextDemand ==
    \/ NewDemand
    \/ SetDemandField

SpecDemand == InitDemand /\ [][NextDemand]_vars

(***************************************************************************)
(* Properties of Demand, checked under SpecDemand.                         *)
(***************************************************************************)
\* C14: a Demand is immutable after construction: a construction with
\* quantity < 0 is rejected, no later operation changes product_id, quantity or
\* timestamp of a constructed Demand, and so its quantity is always >= 0.
C14_DemandImmutable ==
    [][/\ (call'.op = "Demand" /\ call'.args.quantity < 0) =>
            (call'.outcome = "ValueError" /\ demand' = <<>>)
       /\ demand # <<>> => demand' = demand
       /\ demand' # <<>> => demand'[1].quantity >= 0
      ]_vars

====
